---- MODULE Spec2Model ----
(***************************************************************************)
(* Multi-proxy download-link resolution and caching.                       *)
(*                                                                         *)
(* Two programs of the repository implement the subsystem:                 *)
(*   "cacher" - the standalone download-cacher server (src/unnamed/        *)
(*              part_001): GET /get-download, GET /refresh-download over   *)
(*              the sqlite table videos;                                   *)
(*   "routes" - the media routes of the main server (src/server/routes.ts  *)
(*              with src/server/storage.ts): POST /api/media (with its     *)
(*              background scrapeMetadata), PUT and DELETE /api/media/:id, *)
(*              POST /api/media/:id/refresh, GET /api/media/:id/download   *)
(*              over the sqlite table media_items.                         *)
(* A behaviour is a run of one of the two programs (variable prog).        *)
(*                                                                         *)
(* Time is counted in hours.  Every await on a proxy fetch is a point      *)
(* where another handler may run.  The database driver (better-sqlite3) is *)
(* synchronous: an await on a storage call resumes from the microtask      *)
(* queue, before Node serves another request, so a handler runs from one   *)
(* fetch to the next (or to its response) in one step.                     *)
(*                                                                         *)
(* Columns no handler of the subsystem branches on (title, description,    *)
(* thumbnail, duration, scraped_at, created_at) are left out of the rows.  *)
(***************************************************************************)
EXTENDS Integers, Sequences, FiniteSets, TLC

\* ---------------------------------------------------------------- bounds
MaxTime == 2
MaxProxies == 3
MaxReq == 2
MaxIds == 1
MaxPostIds == 2
MaxLabels == 3
MaxLate == 2

\* ------------------------------------------------------- program constants
DefaultTTL == 8

\* --------------------------------------------------------- null encodings
NoTime == -1     \* null / undefined timestamp
BadTime == -2    \* a value new Date() cannot parse (Invalid Date)
Threw == -3      \* the expression threw
NoSize == 0      \* null, undefined or 0: every falsy size
NoStr == "null"  \* null / undefined / "" : every falsy string
NoId == 0

Urls == {"u1"}
Links == {"L1", "L2"}
Ids == 1..MaxIds
Slots == 1..MaxReq
ScrapeSlot(id) == MaxReq + id
TaskIds == 1..(MaxReq + MaxPostIds)
ExpTimes == {1}

VARIABLES prog, now, videos, mediaItems, nextId, tasks, last, pass, apiOptions,
          tags, categories, router

vars == <<prog, now, videos, mediaItems, nextId, tasks, last, pass, apiOptions,
          tags, categories, router>>

\* ------------------------------------------------------------ proxy lists
RoutesProxies ==
  <<"playertera", "tera-fast", "teradwn", "iteraplay", "raspywave",
    "rapidapi", "tera-downloader-cc", "ronnie-client">>

CacherProxies ==
  <<"iteraplay", "raspywave", "rapidapi", "tera-cc", "ronnie- client">>

Min(a, b) == IF a < b THEN a ELSE b

\* The list a pass iterates, cut to the first MaxProxies entries.
API_PROXIES ==
  IF prog = "cacher"
    THEN SubSeq(CacherProxies, 1, Min(MaxProxies, Len(CacherProxies)))
    ELSE SubSeq(RoutesProxies, 1, Min(MaxProxies, Len(RoutesProxies)))

ProxyAtReversed(i) == API_PROXIES[Len(API_PROXIES) + 1 - i]

\* for (const proxy of API_PROXIES): the proxy of the i-th iteration
ProxyAt(i) == API_PROXIES[i]

\* ------------------------------------------------------- proxy responses
\* The top-level fields of a response body a pass reads.  A field holds its
\* null encoding when the body does not have it.
\*   the seven link fields        - a URL, or NoStr
\*   misc                         - a string field outside that list whose
\*                                  value contains "terabox", or NoStr
\*   expires_at                   - a date string: a time, BadTime when it
\*                                  does not parse, NoTime
\*   expires_in                   - a number of seconds, NaNSecs for a value
\*                                  Number() maps to NaN, NoSecs
\*   expires                      - a string, as its characters (<<>>: none)
\*   size                         - a number, or NoSize
LinkFields ==
  <<"download_link", "downloadUrl", "download_url", "file", "file_url",
    "link", "url">>

NoPayload ==
  [download_link |-> NoStr, downloadUrl |-> NoStr, download_url |-> NoStr,
   file |-> NoStr, file_url |-> NoStr, link |-> NoStr, url |-> NoStr,
   misc |-> NoStr, expires_at |-> NoTime, expires_in |-> 0, expires |-> <<>>,
   size |-> NoSize]

\* bodies of the request-level model: a link in field link, an expires_at
Payloads ==
  { [NoPayload EXCEPT !.link = l, !.expires_at = e, !.size = z] :
      l \in Links \cup {NoStr}, e \in {NoTime, BadTime} \cup ExpTimes,
      z \in {NoSize, 1} }

\* What one fetch of a proxy can produce:
\*   "throw"  - fetch rejects (transport error)
\*   "status" - a non-2xx answer (res.ok false)
\*   "json"   - a 2xx answer whose body parses as the JSON object j
\*   "text"   - a 2xx answer whose body is not JSON; text is the URL the
\*              body embeds, or NoStr
Responses ==
  { [kind |-> k, j |-> NoPayload, text |-> NoStr] : k \in {"throw", "status"} }
  \cup { [kind |-> "json", j |-> p, text |-> NoStr] :
            p \in {q \in Payloads : q.link # NoStr} \cup {NoPayload} }
  \cup { [kind |-> "text", j |-> NoPayload, text |-> x] : x \in Links \cup {NoStr} }

NoResult ==
  [ok |-> FALSE, threw |-> FALSE, download_url |-> NoStr,
   expires_at |-> NoTime, size |-> NoSize, proxy |-> NoStr]

Thrown == [NoResult EXCEPT !.threw = TRUE]

\* ------------------------------------------------------ strings and dates
\* A string the code inspects is the sequence of its characters; a date is
\* the whole hours since the epoch.
DigitChars == <<"0", "1", "2", "3", "4", "5", "6", "7", "8", "9">>
IsDigit(c) == \E i \in 1..Len(DigitChars) : DigitChars[i] = c
DigitVal(c) == (CHOOSE i \in 1..Len(DigitChars) : DigitChars[i] = c) - 1
SpaceChars == <<" ">>

\* Number(digits) / parseInt(digits, 10) of a short digit string
RECURSIVE ToInt(_)
ToInt(ds) ==
  IF ds = <<>> THEN 0
  ELSE ToInt(SubSeq(ds, 1, Len(ds) - 1)) * 10 + DigitVal(ds[Len(ds)])

\* the digits without leading zeros: the number they denote
RECURSIVE StripZeros(_)
StripZeros(ds) ==
  IF ds # <<>> /\ ds[1] = "0" THEN StripZeros(Tail(ds)) ELSE ds

\* a <= b for two numbers given by their digits (no leading zeros)
DigitsLeq(a, b) ==
  \/ Len(a) < Len(b)
  \/ /\ Len(a) = Len(b)
     /\ \/ a = b
        \/ \E i \in 1..Len(a) :
             /\ DigitVal(a[i]) < DigitVal(b[i])
             /\ \A k \in 1..(i - 1) : a[k] = b[k]

\* quotient and remainder of the number ds by d, by long division
RECURSIVE DivRem(_, _)
DivRem(ds, d) ==
  IF ds = <<>> THEN [q |-> 0, r |-> 0]
  ELSE LET p == DivRem(SubSeq(ds, 1, Len(ds) - 1), d)
           x == p.r * 10 + DigitVal(ds[Len(ds)])
       IN [q |-> p.q * 10 + x \div d, r |-> x % d]

MsPerHour == 3600 * 1000
SecPerHour == MsPerHour \div 1000

\* the largest time value of a Date, in ms: 8.64e15
MaxDateMs ==
  <<"8", "6", "4", "0", "0", "0", "0", "0", "0", "0", "0", "0", "0", "0",
    "0", "0">>

\* first index k >= i of v with v[k] not one of chars (Len(v)+1: none)
RunEnd(v, i, chars) ==
  LET InClass(c) == \E x \in 1..Len(chars) : chars[x] = c
  IN CHOOSE k \in i..(Len(v) + 1) :
       /\ \A m \in i..(k - 1) : InClass(v[m])
       /\ (k = Len(v) + 1 \/ ~InClass(v[k]))

\* v.match(/(\d+)\s*h/i): does a match start at p
HourMatchAt(v, p) ==
  /\ IsDigit(v[p])
  /\ LET h == RunEnd(v, RunEnd(v, p, DigitChars), SpaceChars)
     IN h <= Len(v) /\ v[h] \in {"h", "H"}

NoMatch == -1

\* Number(m[1]) of the leftmost match of /(\d+)\s*h/i in v, or NoMatch
matchHours(v) ==
  IF \E p \in 1..Len(v) : HourMatchAt(v, p)
    THEN LET p == CHOOSE q \in 1..Len(v) :
                    /\ HourMatchAt(v, q)
                    /\ \A x \in 1..(q - 1) : ~HourMatchAt(v, x)
         IN ToInt(SubSeq(v, p, RunEnd(v, p, DigitChars) - 1))
    ELSE NoMatch

\* new Date(x).toISOString(): throws a RangeError on an Invalid Date
toISOString(x) == IF x = BadTime THEN Threw ELSE x

\* new Date(epoch < 1e12 ? epoch * 1000 : epoch) for epoch = parseInt(v, 10)
MinEpochDigits == 9
MaxSecondsDigits == 12

EpochDateAlwaysMs(v) ==
  LET n == StripZeros(v) IN
  IF DigitsLeq(n, MaxDateMs) THEN DivRem(n, MsPerHour).q ELSE BadTime

EpochDate(v) ==
  LET n == StripZeros(v) IN
  IF Len(n) <= MaxSecondsDigits THEN DivRem(n, SecPerHour).q
  ELSE IF DigitsLeq(n, MaxDateMs) THEN DivRem(n, MsPerHour).q
  ELSE BadTime

\* ------------------------------------------------------------ download URLs
\* new URL(downloadUrl).searchParams of the URLs of this model
QueryUrls ==
  {"https://d/f?dstime=1765000000", "https://d/f?exp=999999999",
   "https://d/f?expires=1765000000000", "https://d/f?dstime=12345678",
   "https://d/f?expires_at=99999999999999999&exp=2h",
   "https://d/f?expires=3h&dstime=1765000000", "https://d/f?ttl=1765000000"}

searchParams(u) ==
  CASE u = "https://d/f?dstime=1765000000" ->
         <<[k |-> "dstime", v |-> <<"1","7","6","5","0","0","0","0","0","0">>]>>
    [] u = "https://d/f?exp=999999999" ->
         <<[k |-> "exp", v |-> <<"9","9","9","9","9","9","9","9","9">>]>>
    [] u = "https://d/f?expires=1765000000000" ->
         <<[k |-> "expires",
            v |-> <<"1","7","6","5","0","0","0","0","0","0","0","0","0">>]>>
    [] u = "https://d/f?dstime=12345678" ->
         <<[k |-> "dstime", v |-> <<"1","2","3","4","5","6","7","8">>]>>
    [] u = "https://d/f?expires_at=99999999999999999&exp=2h" ->
         <<[k |-> "expires_at",
            v |-> <<"9","9","9","9","9","9","9","9","9","9","9","9","9","9",
                    "9","9","9">>],
           [k |-> "exp", v |-> <<"2", "h">>]>>
    [] u = "https://d/f?expires=3h&dstime=1765000000" ->
         <<[k |-> "expires", v |-> <<"3", "h">>],
           [k |-> "dstime", v |-> <<"1","7","6","5","0","0","0","0","0","0">>]>>
    [] u = "https://d/f?ttl=1765000000" ->
         <<[k |-> "ttl", v |-> <<"1","7","6","5","0","0","0","0","0","0">>]>>
    [] OTHER -> <<>>

\* u.searchParams.has(k) / .get(k): the first value of key k
HasParam(u, k) == \E i \in 1..Len(searchParams(u)) : searchParams(u)[i].k = k
GetParam(u, k) ==
  LET ps == searchParams(u)
      i == CHOOSE x \in 1..Len(ps) :
             ps[x].k = k /\ \A y \in 1..(x - 1) : ps[y].k # k
  IN ps[i].v

ExpiryKeys == <<"expires", "expires_at", "dstime", "exp">>

AllDigits(v) == Len(v) >= 1 /\ \A i \in 1..Len(v) : IsDigit(v[i])

\* the loop over the keys, from the i-th on: the date it returns, Threw when
\* toISOString throws, NoTime when it ends without a return
RECURSIVE urlExpiryFrom(_, _, _)
urlExpiryFrom(u, t, i) ==
  IF i > Len(ExpiryKeys) THEN NoTime
  ELSE IF ~HasParam(u, ExpiryKeys[i]) THEN urlExpiryFrom(u, t, i + 1)
  ELSE LET v == GetParam(u, ExpiryKeys[i]) IN
       IF AllDigits(v) /\ Len(v) >= MinEpochDigits
         THEN toISOString(EpochDate(v))
       ELSE IF matchHours(v) # NoMatch
         THEN t + (matchHours(v) * MsPerHour) \div MsPerHour
       ELSE urlExpiryFrom(u, t, i + 1)

\* the try { ... } catch (e) { /* ignore */ } around the URL heuristics
urlExpiry(u, t) ==
  LET x == urlExpiryFrom(u, t, 1) IN IF x = Threw THEN NoTime ELSE x

NaNSecs == -1

parseExpiryInBeforeAt(j, download_url, t) ==
  IF j.expires_in # 0
    THEN IF j.expires_in = NaNSecs THEN toISOString(BadTime)
         ELSE toISOString(t + (j.expires_in * 1000) \div MsPerHour)
  ELSE IF j.expires_at # NoTime
    THEN toISOString(j.expires_at)
  ELSE IF j.expires # <<>> /\ matchHours(j.expires) # NoMatch
    THEN toISOString(t + (matchHours(j.expires) * MsPerHour) \div MsPerHour)
  ELSE LET fromUrl == IF download_url # NoStr THEN urlExpiry(download_url, t)
                      ELSE NoTime
       IN IF fromUrl # NoTime THEN fromUrl
          ELSE toISOString(t + DefaultTTL)

\* Expiry of a link resolved at time t from the parsed body j: a date, or
\* Threw.
parseExpiryFromResponse(j, download_url, t) ==
  IF j.expires_at # NoTime
    THEN toISOString(j.expires_at)
  ELSE IF j.expires_in # 0
    THEN IF j.expires_in = NaNSecs THEN toISOString(BadTime)
         ELSE toISOString(t + (j.expires_in * 1000) \div MsPerHour)
  ELSE IF j.expires # <<>> /\ matchHours(j.expires) # NoMatch
    THEN toISOString(t + (matchHours(j.expires) * MsPerHour) \div MsPerHour)
  ELSE LET fromUrl == IF download_url # NoStr THEN urlExpiry(download_url, t)
                      ELSE NoTime
       IN IF fromUrl # NoTime THEN fromUrl
          ELSE toISOString(t + DefaultTTL)

linkCandidatesReversed(j) ==
  SelectSeq([i \in 1..Len(LinkFields) |->
               j[LinkFields[Len(LinkFields) + 1 - i]]],
            LAMBDA x : x # NoStr)

\* [j.download_link, ..., j.url].filter(Boolean)
linkCandidates(j) ==
  SelectSeq([i \in 1..Len(LinkFields) |-> j[LinkFields[i]]],
            LAMBDA x : x # NoStr)

\* some top-level field of j holds a number
HasNumberField(j) == j.size # NoSize \/ j.expires_in # 0

\* The scan of Object.keys(j) made when no link field has a value: the
\* strings it pushes.  The cacher's condition `a && b || c || d` calls
\* .includes on every field that is not a string, which throws
\* (scanThrows); the main server's is parenthesised and guarded.
scanThrows(j) == prog = "cacher" /\ HasNumberField(j)
scanCandidates(j) == IF j.misc # NoStr THEN <<j.misc>> ELSE <<>>

\* The try block of one iteration of tryProxiesForDownload, the fetch having
\* answered r at time t: the value returned, NoResult when the block ends in
\* `continue` or falls off its end, Thrown when it throws.
\* res.json() consumes the body, so the res.text() of the inner catch
\* rejects ("body used already") and a non-JSON body throws.
LoopBody(r, proxy, t) ==
  IF r.kind = "throw" THEN Thrown
  ELSE IF r.kind = "status" THEN NoResult
  ELSE IF r.kind = "text" THEN Thrown
  ELSE LET top == linkCandidates(r.j) IN
    IF top = <<>> /\ scanThrows(r.j) THEN Thrown
    ELSE LET cands == IF top # <<>> THEN top ELSE scanCandidates(r.j)
         IN IF cands = <<>> THEN NoResult
            ELSE LET download_url == cands[1]
                     expires_at == parseExpiryFromResponse(r.j, download_url, t)
                 IN IF expires_at = Threw THEN Thrown
                    ELSE [NoResult EXCEPT !.ok = TRUE,
                            !.download_url = download_url,
                            !.expires_at = expires_at, !.size = r.j.size,
                            !.proxy = proxy]

catchNothing(x) == x

\* } catch (err) { console.warn(...) }: the iteration ends, the loop goes on
catchInLoop(x) == IF x.threw THEN NoResult ELSE x

\* one iteration: what the pass has in hand after it
Attempt(r, proxy, t) == catchInLoop(LoopBody(r, proxy, t))

PassEndsAtFirstAnswer(i, result) == FALSE

PassContinuesAfterSuccess(i, result) ==
  ~result.threw /\ i < Len(API_PROXIES)

\* After iteration i produced result: does the loop go on to iteration i+1?
\* (a `return` inside the loop ends it; otherwise the for-of advances)
PassContinues(i, result) ==
  ~result.ok /\ ~result.threw /\ i < Len(API_PROXIES)

\* ------------------------------------------------------------------ tasks
\* A task is a handler (or a background scrapeMetadata) suspended at an
\* await.  last is the response sent by the step that led to the current
\* state (for scrapeMetadata, which answers nobody, the completion of its
\* pass), and NoResp when that step sent none.  resultSize is not part of
\* the response: it keeps result.size of the pass the step ended; nor is
\* writeThrew, which tells that the write of the step threw.
NoResp ==
  [op |-> "none", url |-> NoStr, id |-> NoId, status |-> 0, source |-> NoStr,
   downloadUrl |-> NoStr, expiresAt |-> NoTime, proxy |-> NoStr,
   calls |-> <<>>, created |-> <<>>, resultSize |-> NoSize,
   writeThrew |-> FALSE, name |-> NoStr, names |-> {}]

Idle ==
  [op |-> "idle", pc |-> "idle", url |-> NoStr, id |-> NoId, size |-> NoSize,
   idx |-> 0, calls |-> <<>>, boundary |-> FALSE]

InFlight == {t \in TaskIds : tasks[t].pc # "idle"}

\* a request is admitted on an idle slot while fewer than MaxReq tasks
\* (handlers and background scrapes) are in flight
Free(t) == tasks[t].pc = "idle" /\ Cardinality(InFlight) < MaxReq

Reply(op, u, id, calls, status) ==
  [NoResp EXCEPT !.op = op, !.url = u, !.id = id, !.calls = calls,
                 !.status = status]

\* pass follows one call of tryProxiesForDownload on its own (specification
\* SpecPass); the request-level specification leaves it at NoPass.
NoResponse == [kind |-> "none", j |-> NoPayload, text |-> NoStr]

NoPass ==
  [st |-> "off", idx |-> 0, inflight |-> {}, silent |-> {}, r |-> NoResponse,
   result |-> NoResult, calls |-> <<>>, up |-> [ok |-> TRUE, body |-> NoResponse]]

\* rows of table api_options as initializeDatabase leaves them (id and url;
\* the cacher has no such table)
DefaultApiOptions ==
  IF prog = "cacher" THEN {}
  ELSE { [id |-> "playertera", url |-> "/api/playertera-proxy"],
         [id |-> "tera-fast", url |-> "/api/tera-fast-proxy"],
         [id |-> "teradwn", url |-> "/api/teradwn-proxy"],
         [id |-> "iteraplay", url |-> "/api/iteraplay-proxy"],
         [id |-> "raspywave", url |-> "/api/raspywave-proxy"],
         [id |-> "rapidapi", url |-> "/api/rapidapi-proxy"],
         [id |-> "tera-downloader-cc", url |-> "/api/tera-downloader-cc-proxy"] }

Init ==
  /\ prog \in {"cacher", "routes"}
  /\ apiOptions = DefaultApiOptions
  /\ tags = {} /\ categories = {}
  /\ router = <<>>
  /\ now = 0
  /\ videos = {}
  /\ mediaItems = {}
  /\ nextId = 1
  /\ tasks = [t \in TaskIds |-> Idle]
  /\ last = NoResp
  /\ pass = NoPass

Tick ==
  /\ now < MaxTime
  /\ now' = now + 1
  /\ last' = NoResp
  /\ UNCHANGED <<prog, router, tags, categories, apiOptions, videos, mediaItems, nextId, tasks, pass>>

\* ============================================================== cacher
\* rows of table videos: url UNIQUE NOT NULL
NewVideo(u) ==
  [url |-> u, download_url |-> NoStr, download_expires_at |-> NoTime,
   download_fetched_at |-> NoTime, size |-> NoSize, error |-> NoStr]

\* db.prepare("SELECT * FROM videos WHERE url = ?").get(u): a row or none
HasVideo(u) == \E r \in videos : r.url = u
GetVideo(u) == CHOOSE r \in videos : r.url = u

isLinkValidAnyExpiry(row, t) == row.download_url # NoStr

isLinkValidFlipped(row, t) ==
  /\ row.download_url # NoStr
  /\ (row.download_expires_at = NoTime \/ row.download_expires_at < t)

isLinkValidInclusive(row, t) ==
  /\ row.download_url # NoStr
  /\ (row.download_expires_at = NoTime \/ t <= row.download_expires_at)

\* check cached download link validity (the caller tests `row &&` first)
isLinkValid(row, t) ==
  /\ row.download_url # NoStr
  /\ (row.download_expires_at = NoTime \/ t < row.download_expires_at)

InsertLinkAlways(rows, rec) ==
  rows \cup {[NewVideo(rec.url) EXCEPT
                !.download_url = rec.download_url,
                !.download_expires_at = rec.download_expires_at,
                !.download_fetched_at = rec.download_fetched_at,
                !.size = rec.size]}

\* INSERT INTO videos (url, download_url, download_expires_at,
\* download_fetched_at, size) ... ON CONFLICT(url) DO UPDATE SET the four
InsertLink(rows, rec) ==
  IF \E r \in rows : r.url = rec.url
    THEN { IF r.url = rec.url
             THEN [r EXCEPT !.download_url = rec.download_url,
                            !.download_expires_at = rec.download_expires_at,
                            !.download_fetched_at = rec.download_fetched_at,
                            !.size = rec.size]
             ELSE r : r \in rows }
    ELSE rows \cup {[NewVideo(rec.url) EXCEPT
                       !.download_url = rec.download_url,
                       !.download_expires_at = rec.download_expires_at,
                       !.download_fetched_at = rec.download_fetched_at,
                       !.size = rec.size]}

InsertErrorClearingLink(rows, u, e) ==
  {r \in rows : r.url # u} \cup {[NewVideo(u) EXCEPT !.error = e]}

\* INSERT INTO videos (url, scraped_at, error) ... ON CONFLICT(url)
\* DO UPDATE SET scraped_at=CURRENT_TIMESTAMP, error=excluded.error
InsertError(rows, u, e) ==
  IF \E r \in rows : r.url = u
    THEN { IF r.url = u THEN [r EXCEPT !.error = e] ELSE r : r \in rows }
    ELSE rows \cup {[NewVideo(u) EXCEPT !.error = e]}

\* a GET /get-download that stamps the row it answers from
GetDownloadStamping(t, u) ==
  /\ prog = "cacher"
  /\ Free(t)
  /\ IF u = NoStr
       THEN /\ last' = Reply("get-download", u, NoId, <<>>, 400)
            /\ UNCHANGED <<tasks, videos>>
       ELSE IF HasVideo(u) /\ isLinkValid(GetVideo(u), now)
         THEN /\ last' = [Reply("get-download", u, NoId, <<>>, 200) EXCEPT
                            !.source = "cache",
                            !.downloadUrl = GetVideo(u).download_url,
                            !.expiresAt = GetVideo(u).download_expires_at]
              /\ videos' = { IF r.url = u
                               THEN [r EXCEPT !.download_fetched_at = now]
                               ELSE r : r \in videos }
              /\ UNCHANGED tasks
         ELSE /\ tasks' = [tasks EXCEPT ![t] =
                [Idle EXCEPT !.op = "get-download", !.pc = "pass", !.url = u,
                   !.idx = 1,
                   !.boundary = /\ HasVideo(u)
                                /\ GetVideo(u).download_url # NoStr
                                /\ GetVideo(u).download_expires_at = now]]
              /\ last' = NoResp
              /\ UNCHANGED videos
  /\ UNCHANGED <<prog, router, tags, categories, apiOptions, now, mediaItems, nextId, pass>>

\* GET /get-download up to its first await (or its response)
GetDownload(t, u) ==
  /\ prog = "cacher"
  /\ Free(t)
  /\ IF u = NoStr
       THEN /\ last' = Reply("get-download", u, NoId, <<>>, 400)
            /\ UNCHANGED tasks
       ELSE IF HasVideo(u) /\ isLinkValid(GetVideo(u), now)
         THEN /\ last' = [Reply("get-download", u, NoId, <<>>, 200) EXCEPT
                            !.source = "cache",
                            !.downloadUrl = GetVideo(u).download_url,
                            !.expiresAt = GetVideo(u).download_expires_at]
              /\ UNCHANGED tasks
         ELSE /\ tasks' = [tasks EXCEPT ![t] =
                [Idle EXCEPT !.op = "get-download", !.pc = "pass", !.url = u,
                   !.idx = 1,
                   !.boundary = /\ HasVideo(u)
                                /\ GetVideo(u).download_url # NoStr
                                /\ GetVideo(u).download_expires_at = now]]
              /\ last' = NoResp
  /\ UNCHANGED <<prog, router, tags, categories, apiOptions, now, videos, mediaItems, nextId, pass>>

RefreshDownloadThroughCache(t, u) ==
  /\ prog = "cacher"
  /\ Free(t)
  /\ IF u = NoStr
       THEN /\ last' = Reply("refresh-download", u, NoId, <<>>, 400)
            /\ UNCHANGED tasks
       ELSE IF HasVideo(u) /\ isLinkValid(GetVideo(u), now)
         THEN /\ last' = [Reply("refresh-download", u, NoId, <<>>, 200) EXCEPT
                            !.downloadUrl = GetVideo(u).download_url,
                            !.expiresAt = GetVideo(u).download_expires_at]
              /\ UNCHANGED tasks
         ELSE /\ tasks' = [tasks EXCEPT ![t] =
                [Idle EXCEPT !.op = "refresh-download", !.pc = "pass",
                   !.url = u, !.idx = 1]]
              /\ last' = NoResp
  /\ UNCHANGED <<prog, router, tags, categories, apiOptions, now, videos, mediaItems, nextId, pass>>

\* GET /refresh-download up to its first await (or its response)
RefreshDownload(t, u) ==
  /\ prog = "cacher"
  /\ Free(t)
  /\ IF u = NoStr
       THEN /\ last' = Reply("refresh-download", u, NoId, <<>>, 400)
            /\ UNCHANGED tasks
       ELSE /\ tasks' = [tasks EXCEPT ![t] =
              [Idle EXCEPT !.op = "refresh-download", !.pc = "pass", !.url = u,
                 !.idx = 1]]
            /\ last' = NoResp
  /\ UNCHANGED <<prog, router, tags, categories, apiOptions, now, videos, mediaItems, nextId, pass>>

\* GET /get-download after tryProxiesForDownload returned result
GetDownloadFinish(t, result, calls) ==
  LET u == tasks[t].url IN
  IF ~result.ok
    THEN /\ videos' = InsertError(videos, u, "no-download-found")
         /\ last' = Reply("get-download", u, NoId, calls, 404)
    ELSE LET record == [url |-> u, download_url |-> result.download_url,
                        download_expires_at |-> result.expires_at,
                        download_fetched_at |-> now, size |-> result.size]
         IN /\ videos' = InsertLink(videos, record)
            /\ last' = [Reply("get-download", u, NoId, calls, 200) EXCEPT
                          !.source = "proxy", !.proxy = result.proxy,
                          !.downloadUrl = record.download_url,
                          !.expiresAt = record.download_expires_at,
                          !.resultSize = result.size]

\* GET /refresh-download after tryProxiesForDownload returned result
RefreshDownloadFinish(t, result, calls) ==
  LET u == tasks[t].url IN
  IF ~result.ok
    THEN /\ videos' = videos
         /\ last' = Reply("refresh-download", u, NoId, calls, 404)
    ELSE LET record == [url |-> u, download_url |-> result.download_url,
                        download_expires_at |-> result.expires_at,
                        download_fetched_at |-> now, size |-> result.size]
         IN /\ videos' = InsertLink(videos, record)
            /\ last' = [Reply("refresh-download", u, NoId, calls, 200) EXCEPT
                          !.proxy = result.proxy,
                          !.downloadUrl = record.download_url,
                          !.expiresAt = record.download_expires_at,
                          !.resultSize = result.size]

\* ============================================================== routes
\* rows of table media_items: id PRIMARY KEY, url UNIQUE NOT NULL
NewItem(id, u) ==
  [id |-> id, url |-> u, downloadUrl |-> NoStr, downloadExpiresAt |-> NoTime,
   downloadFetchedAt |-> NoTime, size |-> NoSize, error |-> NoStr]

\* storage.getMediaItem(id)
HasItem(id) == \E r \in mediaItems : r.id = id
GetItem(id) == CHOOSE r \in mediaItems : r.id = id

\* storage.getMediaItemByUrl(url)
\* a lookup by url that finds nothing
HasItemByUrlNever(items, u) == FALSE

HasItemByUrl(items, u) == \E r \in items : r.url = u
GetItemByUrl(items, u) == CHOOSE r \in items : r.url = u

\* storage.createMediaItem: INSERT into media_items; the UNIQUE constraint on
\* url makes the insert throw when a row with the url exists (the table is
\* then unchanged)
createMediaItem(items, id, u) ==
  IF \E r \in items : r.url = u THEN items ELSE items \cup {NewItem(id, u)}

updateMediaItemLost(items, id, updates) == items

\* an update that inserts the row it does not find
updateMediaItemUpsert(items, id, updates) ==
  LET rows == IF \E r \in items : r.id = id THEN items
              ELSE items \cup {NewItem(id, NoStr)}
  IN { IF r.id = id
         THEN [f \in DOMAIN r |-> IF f \in DOMAIN updates THEN updates[f] ELSE r[f]]
         ELSE r : r \in rows }

\* storage.updateMediaItem(id, updates): UPDATE ... SET updates WHERE id = id
updateMediaItem(items, id, updates) ==
  { IF r.id = id
      THEN [f \in DOMAIN r |-> IF f \in DOMAIN updates THEN updates[f] ELSE r[f]]
      ELSE r : r \in items }

\* storage.deleteMediaItem(id)
deleteMediaItem(items, id) == {r \in items : r.id # id}

\* GET /api/media/:id/download: "Check if we have a valid cached download URL"
MediaCacheValid(item, t) ==
  /\ item.downloadUrl # NoStr /\ item.downloadExpiresAt # NoTime
  /\ t < item.downloadExpiresAt

\* GET /api/media/:id/download up to its first proxy fetch (or its response)
MediaDownload(t, id) ==
  /\ prog = "routes"
  /\ Free(t)
  /\ IF ~HasItem(id)
       THEN /\ last' = Reply("download", NoStr, id, <<>>, 404)
            /\ UNCHANGED tasks
       ELSE LET mediaItem == GetItem(id) IN
         IF MediaCacheValid(mediaItem, now)
           THEN /\ last' = [Reply("download", mediaItem.url, id, <<>>, 200) EXCEPT
                              !.source = "cache",
                              !.downloadUrl = mediaItem.downloadUrl,
                              !.expiresAt = mediaItem.downloadExpiresAt]
                /\ UNCHANGED tasks
           ELSE /\ tasks' = [tasks EXCEPT ![t] =
                  [Idle EXCEPT !.op = "download", !.pc = "pass",
                     !.url = mediaItem.url, !.id = id, !.size = mediaItem.size,
                     !.idx = 1,
                     !.boundary = /\ mediaItem.downloadUrl # NoStr
                                  /\ mediaItem.downloadExpiresAt = now]]
                /\ last' = NoResp
  /\ UNCHANGED <<prog, router, tags, categories, apiOptions, now, videos, mediaItems, nextId, pass>>

\* POST /api/media/:id/refresh up to its first proxy fetch (or its response)
MediaRefresh(t, id) ==
  /\ prog = "routes"
  /\ Free(t)
  /\ IF ~HasItem(id)
       THEN /\ last' = Reply("refresh", NoStr, id, <<>>, 404)
            /\ UNCHANGED tasks
       ELSE LET mediaItem == GetItem(id) IN
            /\ tasks' = [tasks EXCEPT ![t] =
                 [Idle EXCEPT !.op = "refresh", !.pc = "pass",
                    !.url = mediaItem.url, !.id = id, !.size = mediaItem.size,
                    !.idx = 1]]
            /\ last' = NoResp
  /\ UNCHANGED <<prog, router, tags, categories, apiOptions, now, videos, mediaItems, nextId, pass>>

\* result.size || mediaItem.size
SizeOr(a, b) == IF a # NoSize THEN a ELSE b

\* GET /api/media/:id/download after tryProxiesForDownload returned result
MediaDownloadFinish(t, result, calls) ==
  LET tk == tasks[t] IN
  IF result.ok
    THEN /\ mediaItems' = updateMediaItem(mediaItems, tk.id,
               [downloadUrl |-> result.download_url,
                downloadExpiresAt |-> result.expires_at,
                downloadFetchedAt |-> now,
                size |-> SizeOr(result.size, tk.size)])
         /\ last' = [Reply("download", tk.url, tk.id, calls, 200) EXCEPT
                       !.source = "fresh",
                       !.downloadUrl = result.download_url,
                       !.expiresAt = result.expires_at,
                       !.proxy = result.proxy, !.resultSize = result.size]
    ELSE /\ mediaItems' = mediaItems
         /\ last' = Reply("download", tk.url, tk.id, calls, 404)

\* POST /api/media/:id/refresh after tryProxiesForDownload returned result
\* (the body of the 200 answer is the row re-read after the update)
MediaRefreshFinish(t, result, calls) ==
  LET tk == tasks[t] IN
  IF result.ok
    THEN /\ mediaItems' = updateMediaItem(mediaItems, tk.id,
               [downloadUrl |-> result.download_url,
                downloadExpiresAt |-> result.expires_at,
                downloadFetchedAt |-> now,
                size |-> SizeOr(result.size, tk.size),
                error |-> NoStr])
         /\ last' = [Reply("refresh", tk.url, tk.id, calls, 200) EXCEPT
                       !.downloadUrl = result.download_url,
                       !.expiresAt = result.expires_at,
                       !.proxy = result.proxy, !.resultSize = result.size]
    ELSE /\ mediaItems' = updateMediaItem(mediaItems, tk.id,
               [error |-> "No download link found from proxies",
                downloadFetchedAt |-> now])
         /\ last' = Reply("refresh", tk.url, tk.id, calls, 404)

\* scrapeMetadata after tryProxiesForDownload returned result
scrapeMetadataFinish(t, result, calls) ==
  LET tk == tasks[t] IN
  /\ IF result.ok
       THEN mediaItems' = updateMediaItem(mediaItems, tk.id,
               [size |-> SizeOr(result.size, tk.size),
                downloadUrl |-> result.download_url,
                downloadExpiresAt |-> result.expires_at,
                downloadFetchedAt |-> now,
                error |-> NoStr])
       ELSE mediaItems' = updateMediaItem(mediaItems, tk.id,
               [error |-> "Failed to scrape metadata from all proxies"])
  /\ last' = [Reply("scrape", tk.url, tk.id, calls, 0) EXCEPT
                !.proxy = result.proxy]

unshift(list, x) == <<x>> \o list

\* createdItems.push(mediaItem)
push(list, x) == Append(list, x)

\* the for-of loop of POST /api/media over the rest of urls; acc holds the
\* table, the next fresh id, createdItems and the scrapes triggered so far
RECURSIVE PostLoop(_, _)
PostLoop(urls, acc) ==
  IF urls = <<>> THEN acc
  ELSE LET url == Head(urls) IN
    IF HasItemByUrl(acc.items, url)
      THEN PostLoop(Tail(urls),
             [acc EXCEPT !.created =
                push(@, GetItemByUrl(acc.items, url).id)])
      ELSE PostLoop(Tail(urls),
             [items |-> createMediaItem(acc.items, acc.nextId, url),
              nextId |-> acc.nextId + 1,
              created |-> push(acc.created, acc.nextId),
              scrapes |-> acc.scrapes \cup {[id |-> acc.nextId, url |-> url]}])

\* POST /api/media with body {urls}.  Every scrapeMetadata it triggers runs
\* to its first proxy fetch, having read the row just made.
\* (at most maxId items are ever created)
PostMediaUpTo(urls, maxId) ==
  /\ prog = "routes"
  /\ Cardinality(InFlight) < MaxReq
  /\ LET out == PostLoop(urls, [items |-> mediaItems, nextId |-> nextId,
                                created |-> <<>>, scrapes |-> {}])
     IN /\ out.nextId <= maxId + 1
        /\ mediaItems' = out.items
        /\ nextId' = out.nextId
        /\ tasks' = [t \in TaskIds |->
             IF \E s \in out.scrapes : ScrapeSlot(s.id) = t
               THEN LET s == CHOOSE x \in out.scrapes : ScrapeSlot(x.id) = t
                    IN [Idle EXCEPT !.op = "scrape", !.pc = "pass",
                          !.url = s.url, !.id = s.id, !.idx = 1]
               ELSE tasks[t]]
        /\ last' = [Reply("post", NoStr, NoId, <<>>, 201) EXCEPT
                      !.created = out.created]
  /\ UNCHANGED <<prog, router, tags, categories, apiOptions, now, videos, pass>>

PostMedia(urls) == PostMediaUpTo(urls, MaxIds)

\* DELETE /api/media/:id: deleteMediaItem resolves to true whether or not a
\* row was removed
DeleteMedia(id) ==
  /\ prog = "routes"
  /\ mediaItems' = deleteMediaItem(mediaItems, id)
  /\ last' = Reply("delete", NoStr, id, <<>>, 200)
  /\ UNCHANGED <<prog, router, tags, categories, apiOptions, now, videos, nextId, tasks, pass>>

\* bodies of PUT /api/media/:id
PutUpdates ==
  { [downloadUrl |-> l, downloadExpiresAt |-> NoTime] : l \in Links }

\* PUT /api/media/:id with body updates: the update, then the row re-read
PutMedia(id, updates) ==
  /\ prog = "routes"
  /\ mediaItems' = updateMediaItem(mediaItems, id, updates)
  /\ last' = Reply("put", NoStr, id, <<>>, IF HasItem(id) THEN 200 ELSE 404)
  /\ UNCHANGED <<prog, router, tags, categories, apiOptions, now, videos, nextId, tasks, pass>>

\* ===================================================== the resolution pass
\* the handler continues after `await tryProxiesForDownload(...)`; were the
\* pass to throw, the handler's catch block answers 500 (scrapeMetadata has
\* no catch: its promise is rejected and nothing is written)
Finish(t, result, calls) ==
  IF result.threw
    THEN /\ last' = Reply(tasks[t].op, tasks[t].url, tasks[t].id, calls,
                          IF tasks[t].op = "scrape" THEN 0 ELSE 500)
         /\ UNCHANGED <<videos, mediaItems>>
    ELSE CASE tasks[t].op = "get-download" ->
                GetDownloadFinish(t, result, calls) /\ UNCHANGED mediaItems
           [] tasks[t].op = "refresh-download" ->
                RefreshDownloadFinish(t, result, calls) /\ UNCHANGED mediaItems
           [] tasks[t].op = "download" ->
                MediaDownloadFinish(t, result, calls) /\ UNCHANGED videos
           [] tasks[t].op = "refresh" ->
                MediaRefreshFinish(t, result, calls) /\ UNCHANGED videos
           [] tasks[t].op = "scrape" ->
                scrapeMetadataFinish(t, result, calls) /\ UNCHANGED videos

\* what iteration i of a pass can have in hand at time t, over every answer
\* the fetch can get
Outcomes(i, t) == { Attempt(r, ProxyAt(i), t) : r \in Responses }

\* tryProxiesForDownload: one iteration of the loop - the fetch of proxy idx
\* is answered; the iteration either continues the loop or ends the pass,
\* and then the awaiting handler runs to its response.
tryProxiesForDownload(t) ==
  /\ tasks[t].pc = "pass"
  /\ \E result \in Outcomes(tasks[t].idx, now) :
       LET tk == tasks[t]
           proxy == ProxyAt(tk.idx)
           calls == Append(tk.calls, [proxy |-> proxy, ok |-> result.ok,
                                      link |-> result.download_url])
       IN IF PassContinues(tk.idx, result)
            THEN /\ tasks' = [tasks EXCEPT ![t].idx = tk.idx + 1, ![t].calls = calls]
                 /\ last' = NoResp
                 /\ UNCHANGED <<videos, mediaItems>>
            ELSE /\ Finish(t, result, calls)
                 /\ tasks' = [tasks EXCEPT ![t] = Idle]
  /\ UNCHANGED <<prog, router, tags, categories, apiOptions, now, nextId, pass>>

\* a catch block that answers with the link the pass resolved
catchAndAnswerLink(tk, calls, result) ==
  [Reply(tk.op, tk.url, tk.id, calls, 200) EXCEPT
     !.downloadUrl = result.download_url, !.expiresAt = result.expires_at,
     !.proxy = result.proxy]

\* the catch block of the handler of task tk: the fixed 500 answer (err.message
\* in the cacher); scrapeMetadata has none, its promise is rejected
catchBlock(tk, calls, result) ==
  Reply(tk.op, tk.url, tk.id, calls, IF tk.op = "scrape" THEN 0 ELSE 500)

\* the last iteration of a pass returns a link and the write that follows
\* (insert.run(record), storage.updateMediaItem) throws: the statement
\* changes no row, and control leaves the try block for the catch block
WriteThrows(t) ==
  /\ tasks[t].pc = "pass"
  /\ \E result \in Outcomes(tasks[t].idx, now) :
       LET tk == tasks[t]
           calls == Append(tk.calls, [proxy |-> ProxyAt(tk.idx), ok |-> result.ok,
                                      link |-> result.download_url])
       IN /\ result.ok /\ ~result.threw
          /\ ~PassContinues(tk.idx, result)
          /\ last' = [catchBlock(tk, calls, result) EXCEPT !.writeThrew = TRUE]
  /\ tasks' = [tasks EXCEPT ![t] = Idle]
  /\ UNCHANGED <<prog, router, tags, categories, apiOptions, now, videos, mediaItems, nextId, pass>>

UrlLists == {<<u>> : u \in Urls} \cup {<<u, v>> : u \in Urls, v \in Urls}

Next ==
  \/ Tick
  \/ \E t \in Slots, u \in Urls \cup {NoStr} : GetDownload(t, u)
  \/ \E t \in Slots, u \in Urls \cup {NoStr} : RefreshDownload(t, u)
  \/ \E t \in Slots, id \in Ids : MediaDownload(t, id)
  \/ \E t \in Slots, id \in Ids : MediaRefresh(t, id)
  \/ \E urls \in UrlLists : PostMedia(urls)
  \/ \E id \in Ids : DeleteMedia(id)
  \/ \E id \in Ids, updates \in PutUpdates : PutMedia(id, updates)
  \/ \E t \in TaskIds : tryProxiesForDownload(t)
  \/ \E t \in TaskIds : WriteThrows(t)

Spec == Init /\ [][Next]_vars

\* ================================================== the media item routes
\* SpecPost follows POST and DELETE /api/media over two source URLs and
\* MaxPostIds items, with the background scrapes POST triggers.
PostLists ==
  {<<u>> : u \in {"u1", "u2"}} \cup {<<u, v>> : u \in {"u1", "u2"}, v \in {"u1", "u2"}}

NextPost ==
  \/ \E urls \in PostLists : PostMediaUpTo(urls, MaxPostIds)
  \/ \E id \in 1..MaxPostIds : DeleteMedia(id)
  \/ \E t \in TaskIds : tryProxiesForDownload(t)

SpecPost == Init /\ [][NextPost]_vars

\* ================================================ tags and categories
\* SpecTags follows the routes of the tables tags and categories (rows: id
\* PRIMARY KEY, name UNIQUE NOT NULL).  The two families have the same code;
\* table says which one a request addresses.  At most MaxLabels rows are
\* ever created.
createTagDropped(rows, id, name) == rows

\* storage.createTag / createCategory: INSERT of a row with a new id
createTag(rows, id, name) == rows \cup {[id |-> id, name |-> name]}

\* POST /api/tags, POST /api/categories with a valid body: the insert throws
\* on a name the table holds, and the catch block answers 500
PostLabel(table, name) ==
  /\ prog = "routes"
  /\ nextId <= MaxLabels
  /\ LET rows == IF table = "tags" THEN tags ELSE categories
         taken == \E r \in rows : r.name = name
         after == IF taken THEN rows ELSE createTag(rows, nextId, name)
     IN /\ tags' = IF table = "tags" THEN after ELSE tags
        /\ categories' = IF table = "tags" THEN categories ELSE after
        /\ nextId' = nextId + 1
        /\ last' = [NoResp EXCEPT !.op = "post-" \o table, !.name = name,
                      !.id = IF taken THEN NoId ELSE nextId,
                      !.status = IF taken THEN 500 ELSE 201]
  /\ UNCHANGED <<prog, router, apiOptions, now, videos, mediaItems, tasks, pass>>

\* DELETE /api/tags/:id, DELETE /api/categories/:id (deleteTag and
\* deleteCategory resolve to true always)
DeleteLabel(table, id) ==
  /\ prog = "routes"
  /\ tags' = IF table = "tags" THEN {r \in tags : r.id # id} ELSE tags
  /\ categories' = IF table = "tags" THEN categories
                   ELSE {r \in categories : r.id # id}
  /\ last' = [NoResp EXCEPT !.op = "delete-" \o table, !.id = id, !.status = 200]
  /\ UNCHANGED <<prog, router, apiOptions, now, videos, mediaItems, nextId, tasks, pass>>

\* GET /api/tags, GET /api/categories: every row of the table (by name)
GetLabels(table) ==
  /\ prog = "routes"
  /\ last' = [NoResp EXCEPT !.op = "get-" \o table, !.status = 200,
                !.names = {r.name : r \in IF table = "tags" THEN tags
                                                          ELSE categories}]
  /\ UNCHANGED <<prog, router, apiOptions, tags, categories, now, videos, mediaItems,
                 nextId, tasks, pass>>

NextTags ==
  \/ \E table \in {"tags", "categories"}, name \in {"a", "b"} : PostLabel(table, name)
  \/ \E table \in {"tags", "categories"}, id \in 1..MaxLabels : DeleteLabel(table, id)
  \/ \E table \in {"tags", "categories"} : GetLabels(table)

SpecTags == Init /\ [][NextTags]_vars

\* ====================================================== the route stack
\* router is the layer stack of the express app (empty until startServer
\* ran).  A layer has the path it is mounted on ("*" for app.use without a
\* path), and what its handler does with a GET it matches: "next" calls
\* next(); anything else is the body it answers 200 with.  SpecServer
\* follows startServer, handlers registered on the returned app later on,
\* and GET requests.
Layer(path, does) == [path |-> path, does |-> does]

\* the stack is searched from the last layer registered
handleLastFirst(stack, path) ==
  LET hits == {k \in 1..Len(stack) :
                 stack[k].path \in {path, "*"} /\ stack[k].does # "next"}
  IN IF hits = {} THEN "404"
     ELSE stack[CHOOSE k \in hits : \A h \in hits : h <= k].does

\* app.handle: the layers matching the request path run in the order they
\* were registered, each one reached only if the one before called next()
handle(stack, path) ==
  LET hits == {k \in 1..Len(stack) :
                 stack[k].path \in {path, "*"} /\ stack[k].does # "next"}
  IN IF hits = {} THEN "404"
     ELSE stack[CHOOSE k \in hits : \A h \in hits : k <= h].does

\* startServer: the middlewares, registerRoutes (GET /health first), the
\* error middleware (passed over by a request with no error), setupVite or
\* serveStatic (static: whether it answers a path is left open), the second
\* GET /health
startServer(static) ==
  /\ prog = "routes"
  /\ router = <<>>
  /\ router' = << Layer("*", "next"), Layer("*", "next"), Layer("*", "next"),
                  Layer("*", "next"),
                  Layer("/health", "OK"), Layer("/api/media", "media"),
                  Layer("*", "next"),
                  Layer("*", static),
                  Layer("/health", "json") >>
  /\ last' = NoResp
  /\ UNCHANGED <<prog, apiOptions, tags, categories, now, videos, mediaItems,
                 nextId, tasks, pass>>

\* a handler registered on the app once startServer has returned it
RegisterLate(path, does) ==
  /\ router # <<>>
  /\ Len(router) < 9 + MaxLate
  /\ router' = Append(router, Layer(path, does))
  /\ last' = NoResp
  /\ UNCHANGED <<prog, apiOptions, tags, categories, now, videos, mediaItems,
                 nextId, tasks, pass>>

\* GET path on the listening server
Get(path) ==
  /\ router # <<>>
  /\ LET body == handle(router, path)
     IN last' = [NoResp EXCEPT !.op = "get", !.url = path, !.name = body,
                   !.status = IF body = "404" THEN 404 ELSE 200]
  /\ UNCHANGED <<prog, router, apiOptions, tags, categories, now, videos,
                 mediaItems, nextId, tasks, pass>>

NextServer ==
  \/ \E static \in {"next", "index.html"} : startServer(static)
  \/ \E path \in {"/health", "/late", "*"}, does \in {"next", "late", "json"} :
       RegisterLate(path, does)
  \/ \E path \in {"/health", "/late", "/api/media"} : Get(path)

SpecServer == Init /\ [][NextServer]_vars

\* ================================================== requests to reject
\* SpecInput follows the requests whose target is not valid: a url query
\* parameter that is missing or is not a URL (req.query.url is used as it
\* comes), an id that no media item has (POST /api/media, which would make
\* one, is left out).
MalformedUrls == {"not a url"}

NextInput ==
  \/ Tick
  \/ \E t \in Slots, u \in MalformedUrls \cup {NoStr} : GetDownload(t, u)
  \/ \E t \in Slots, u \in MalformedUrls \cup {NoStr} : RefreshDownload(t, u)
  \/ \E t \in Slots, id \in Ids : MediaDownload(t, id)
  \/ \E t \in Slots, id \in Ids : MediaRefresh(t, id)
  \/ \E t \in TaskIds : tryProxiesForDownload(t)

SpecInput == Init /\ [][NextInput]_vars

\* ============================================== the proxy configuration
\* SpecOptions follows the api-options routes next to the requests that run
\* a pass.  OptionIds are the ids the requests name: one of the default rows
\* and the id createApiOption draws for a new row.
OptionIds == {"playertera", "mine"}

\* POST /api/api-options
CreateApiOption(id, url) ==
  /\ prog = "routes"
  /\ \A o \in apiOptions : o.id # id
  /\ apiOptions' = apiOptions \cup {[id |-> id, url |-> url]}
  /\ last' = [NoResp EXCEPT !.op = "api-options", !.status = 201]
  /\ UNCHANGED <<prog, router, tags, categories, now, videos, mediaItems, nextId, tasks, pass>>

\* PUT /api/api-options/:id
UpdateApiOption(id, url) ==
  /\ prog = "routes"
  /\ apiOptions' = { IF o.id = id THEN [o EXCEPT !.url = url] ELSE o :
                       o \in apiOptions }
  /\ last' = [NoResp EXCEPT !.op = "api-options",
                 !.status = IF \E o \in apiOptions : o.id = id THEN 200 ELSE 404]
  /\ UNCHANGED <<prog, router, tags, categories, now, videos, mediaItems, nextId, tasks, pass>>

\* DELETE /api/api-options/:id (deleteApiOption returns true always)
DeleteApiOption(id) ==
  /\ prog = "routes"
  /\ apiOptions' = {o \in apiOptions : o.id # id}
  /\ last' = [NoResp EXCEPT !.op = "api-options", !.status = 204]
  /\ UNCHANGED <<prog, router, tags, categories, now, videos, mediaItems, nextId, tasks, pass>>

NextOptions ==
  \/ \E id \in OptionIds : CreateApiOption(id, "/api/mine")
  \/ \E id \in OptionIds : UpdateApiOption(id, "/api/mine")
  \/ \E id \in OptionIds : DeleteApiOption(id)
  \/ \E urls \in UrlLists : PostMedia(urls)
  \/ \E t \in Slots, id \in Ids : MediaDownload(t, id)
  \/ \E t \in TaskIds : tryProxiesForDownload(t)

SpecOptions == Init /\ [][NextOptions]_vars

\* ============================================ the apiId query parameter
\* The client sends GET /api/media/:id/download?apiId=<id of an api option>
\* when one is selected and no query otherwise.
ApiIds == {NoStr} \cup OptionIds

\* a handler that skips the stored link when an api is selected
MediaDownloadSelecting(t, id, apiId) ==
  IF apiId = NoStr \/ ~HasItem(id) THEN MediaDownload(t, id)
  ELSE /\ prog = "routes"
       /\ Free(t)
       /\ tasks' = [tasks EXCEPT ![t] =
             [Idle EXCEPT !.op = "download", !.pc = "pass",
                !.url = GetItem(id).url, !.id = id, !.size = GetItem(id).size,
                !.idx = 1]]
       /\ last' = NoResp
       /\ UNCHANGED <<prog, router, tags, categories, apiOptions, now, videos,
                      mediaItems, nextId, pass>>

\* GET /api/media/:id/download with the query it was sent: the handler binds
\* apiId and reads it nowhere
MediaDownloadApi(t, id, apiId) ==
  LET query == [apiId |-> apiId]
  IN MediaDownload(t, id)

NextApi ==
  \/ Tick
  \/ \E urls \in UrlLists : PostMedia(urls)
  \/ \E id \in Ids : DeleteMedia(id)
  \/ \E t \in Slots, id \in Ids, apiId \in ApiIds : MediaDownloadApi(t, id, apiId)
  \/ \E t \in TaskIds : tryProxiesForDownload(t)

SpecApi == Init /\ [][NextApi]_vars

\* ================================================== one pass, on its own
\* SpecPass follows a single call of tryProxiesForDownload: which fetches
\* are outstanding, the answer each one gets (over a wider set of bodies
\* than the request-level specification needs), and how the call ends.

\* bodies with up to two of the link fields set, with or without a string
\* field the scan would pick and a size
LinkPayloads ==
  { [NoPayload EXCEPT !.misc = m, !.size = z] :
      m \in {NoStr, "T1"}, z \in {NoSize, 1} }
  \cup { [NoPayload EXCEPT ![LinkFields[a]] = "L1", !.misc = m, !.size = z] :
           a \in 1..Len(LinkFields), m \in {NoStr, "T1"}, z \in {NoSize, 1} }
  \cup { [NoPayload EXCEPT ![LinkFields[ab[1]]] = "L1",
                           ![LinkFields[ab[2]]] = "L2", !.misc = m] :
           ab \in { x \in (1..Len(LinkFields)) \X (1..Len(LinkFields)) :
                      x[1] # x[2] },
           m \in {NoStr, "T1"} }

\* values of the field expires
ExpiresStrings ==
  {<<>>, <<"2", "h">>, <<"s", "o", "o", "n">>, <<"1", "2", " ", "H", "r", "s">>}

\* bodies with a link: every URL of the model with no expiry field, and
\* every combination of the expiry fields with a plain and a dated URL
ExpiryPayloads ==
  { [NoPayload EXCEPT !.link = u] : u \in QueryUrls }
  \cup { [NoPayload EXCEPT !.link = u, !.expires_at = e, !.expires_in = n,
                           !.expires = x] :
           u \in {"L1", "https://d/f?dstime=1765000000"},
           e \in {NoTime, BadTime} \cup ExpTimes,
           n \in {0, NaNSecs, 2 * SecPerHour}, x \in ExpiresStrings }

PassResponses ==
  { [kind |-> k, j |-> NoPayload, text |-> NoStr] : k \in {"throw", "status"} }
  \cup { [kind |-> "json", j |-> p, text |-> NoStr] :
            p \in LinkPayloads \cup ExpiryPayloads }
  \cup { [kind |-> "text", j |-> NoPayload, text |-> x] : x \in Links \cup {NoStr} }

InitPass ==
  /\ prog \in {"cacher", "routes"}
  /\ apiOptions = DefaultApiOptions
  /\ tags = {} /\ categories = {}
  /\ router = <<>>
  /\ now \in 0..1
  /\ videos = {}
  /\ mediaItems = {}
  /\ nextId = 1
  /\ tasks = [t \in TaskIds |-> Idle]
  /\ last = NoResp
  /\ pass \in { [NoPass EXCEPT !.st = "called", !.silent = S] :
                  S \in {{}} \cup { {i} : i \in 1..Len(API_PROXIES) } }

IssueAllFetches(i) == i..Len(API_PROXIES)

\* the fetches iteration i issues: `res = await fetch(...)` of proxy i
IssueFetch(i) == {i}

\* the call enters the loop: the fetch of the first proxy is issued
PassStart ==
  /\ pass.st = "called"
  /\ pass' = [pass EXCEPT !.st = "awaiting", !.idx = 1,
                          !.inflight = IssueFetch(1)]
  /\ UNCHANGED <<prog, router, tags, categories, apiOptions, now, videos, mediaItems, nextId, tasks, last>>

\* every answer r the fetch of proxy i can get at time t, with what the
\* iteration makes of it
PassOutcomes(i, t) ==
  { [r |-> r, result |-> Attempt(r, ProxyAt(i), t)] : r \in PassResponses }

\* the promise the pass awaits settles: its fetch was issued and its proxy
\* answers.  Nothing else resumes the pass: no fetch is given a timeout or
\* an abort signal.
FetchSettles ==
  /\ pass.st = "awaiting"
  /\ pass.idx \in pass.inflight
  /\ pass.idx \notin pass.silent

\* the awaited fetch is answered with r (a proxy in silent never answers):
\* the rest of the iteration, then the next fetch or the end of the call
PassAnswer ==
  /\ FetchSettles
  /\ \E a \in PassOutcomes(pass.idx, now) :
       LET calls == Append(pass.calls,
                           [proxy |-> ProxyAt(pass.idx), ok |-> a.result.ok,
                            link |-> a.result.download_url])
           rest == pass.inflight \ {pass.idx}
       IN pass' =
            IF PassContinues(pass.idx, a.result)
              THEN [pass EXCEPT !.idx = pass.idx + 1,
                       !.inflight = rest \cup IssueFetch(pass.idx + 1),
                       !.r = a.r, !.result = a.result, !.calls = calls]
              ELSE [pass EXCEPT
                       !.st = IF a.result.threw THEN "threw" ELSE "returned",
                       !.inflight = rest,
                       !.r = a.r, !.result = a.result, !.calls = calls]
  /\ UNCHANGED <<prog, router, tags, categories, apiOptions, now, videos, mediaItems, nextId, tasks, last>>

NextPass == PassStart \/ PassAnswer

SpecPass == InitPass /\ [][NextPass]_vars

\* ------------------------------------------------ behind the proxy routes
\* SpecRelay follows a pass of the main server one level further: each proxy
\* of API_PROXIES is a route of the same server that calls a third-party
\* service and relays its answer.  up is that service's answer: ok is
\* response.ok, body what the service sent (kind "throw": the fetch of the
\* route rejects).  pass.up keeps the answer behind the last fetch.
Upstreams ==
  { [ok |-> o, body |-> b] :
      o \in BOOLEAN, b \in {r \in PassResponses : r.kind \in {"json", "text"}} }
  \cup { [ok |-> FALSE, body |-> [kind |-> "throw", j |-> NoPayload, text |-> NoStr]] }

\* what the route of proxy sends for up.  playertera, teradwn, iteraplay and
\* raspywave do `res.send(await response.text())`; rapidapi, tera-fast and
\* tera-downloader-cc do `res.json(await response.json())`, which throws on
\* a body that is not JSON; the catch block of each answers 500, and there
\* is no route for ronnie-client (404).  None reads response.ok or
\* response.status.
proxyRoute(proxy, up) ==
  LET failed == [kind |-> "status", j |-> NoPayload, text |-> NoStr]
  IN CASE up.body.kind = "throw" -> failed
       [] proxy \in {"playertera", "teradwn", "iteraplay", "raspywave"} -> up.body
       [] proxy \in {"rapidapi", "tera-fast", "tera-downloader-cc"} ->
            IF up.body.kind = "json" THEN up.body ELSE failed
       [] OTHER -> failed

\* the awaited fetch of the pass is answered by the route of its proxy
RelayAnswer ==
  /\ prog = "routes"
  /\ FetchSettles
  /\ \E a \in { [up |-> up,
                  r |-> proxyRoute(ProxyAt(pass.idx), up),
                  result |-> Attempt(proxyRoute(ProxyAt(pass.idx), up),
                                     ProxyAt(pass.idx), now)] : up \in Upstreams } :
       LET calls == Append(pass.calls,
                           [proxy |-> ProxyAt(pass.idx), ok |-> a.result.ok,
                            link |-> a.result.download_url])
           rest == pass.inflight \ {pass.idx}
       IN pass' =
            IF PassContinues(pass.idx, a.result)
              THEN [pass EXCEPT !.idx = pass.idx + 1,
                       !.inflight = rest \cup IssueFetch(pass.idx + 1),
                       !.r = a.r, !.result = a.result, !.calls = calls,
                       !.up = a.up]
              ELSE [pass EXCEPT
                       !.st = IF a.result.threw THEN "threw" ELSE "returned",
                       !.inflight = rest,
                       !.r = a.r, !.result = a.result, !.calls = calls,
                       !.up = a.up]
  /\ UNCHANGED <<prog, router, tags, categories, apiOptions, now, videos, mediaItems, nextId, tasks, last>>

NextRelay == PassStart \/ RelayAnswer

SpecRelay == InitPass /\ [][NextRelay]_vars

\* ================================================================ claims
\* The CacheRecord(s) stored for source URL u, in the spec's field names.
Recs(u) ==
  IF prog = "cacher"
    THEN { [downloadUrl |-> r.download_url, expiresAt |-> r.download_expires_at,
            fetchedAt |-> r.download_fetched_at, sizeBytes |-> r.size,
            lastError |-> r.error] : r \in {v \in videos : v.url = u} }
    ELSE { [downloadUrl |-> r.downloadUrl, expiresAt |-> r.downloadExpiresAt,
            fetchedAt |-> r.downloadFetchedAt, sizeBytes |-> r.size,
            lastError |-> r.error] : r \in {m \in mediaItems : m.url = u} }

\* the step in which a getDownloadLink request for source URL u is received
GetLinkStep(t, u) ==
  \/ GetDownload(t, u)
  \/ \E id \in Ids : MediaDownload(t, id) /\ HasItem(id) /\ GetItem(id).url = u

\* the routes that answer getDownloadLink and forceRefresh
LinkOps == {"get-download", "refresh-download", "download", "refresh"}

\* every proxy of the list was called and none produced a usable link
Exhausted(calls) ==
  /\ Len(calls) = Len(API_PROXIES)
  /\ \A k \in 1..Len(calls) : ~calls[k].ok

CallsInOrder(calls) ==
  /\ Len(calls) <= Len(API_PROXIES)
  /\ \A k \in 1..Len(calls) : calls[k].proxy = API_PROXIES[k]

\* C1 - cache short-circuit: a getDownloadLink request received while the
\* stored record has a downloadUrl and an expiresAt later than now is answered
\* in that step with source "cache" and the stored downloadUrl and expiresAt;
\* no task is started for it, so no proxy is called.
C1_CacheShortCircuit ==
  [][ \A t \in Slots, u \in Urls :
        ( /\ GetLinkStep(t, u)
          /\ \E r \in Recs(u) : /\ r.downloadUrl # NoStr
                                /\ r.expiresAt # NoTime
                                /\ now < r.expiresAt )
        => /\ last'.status = 200
           /\ last'.source = "cache"
           /\ \E r \in Recs(u) : /\ last'.downloadUrl = r.downloadUrl
                                 /\ last'.expiresAt = r.expiresAt
           /\ last'.calls = <<>>
           /\ tasks' = tasks ]_vars

C1_Witness ==
  /\ last.status = 200 /\ last.source = "cache" /\ last.calls = <<>>
  /\ last.expiresAt # NoTime /\ now < last.expiresAt
  /\ \E r \in Recs(last.url) : r.downloadUrl = last.downloadUrl

\* C2 - ordered fallback: the k-th call of a pass goes to the k-th proxy of
\* the list; while a pass runs every proxy called so far has failed; and a
\* successful pass is attributed to the first proxy (in list order) whose
\* answer was usable, every proxy before it having been called and failed.
C2_OrderedFallback ==
  /\ \A t \in TaskIds :
       tasks[t].pc = "pass" =>
         /\ CallsInOrder(tasks[t].calls)
         /\ Len(tasks[t].calls) = tasks[t].idx - 1
         /\ \A k \in 1..Len(tasks[t].calls) : ~tasks[t].calls[k].ok
  /\ CallsInOrder(last.calls)
  /\ last.proxy # NoStr =>
       \E k \in 1..Len(last.calls) :
         /\ last.calls[k].ok
         /\ last.proxy = API_PROXIES[k]
         /\ \A j \in 1..(k - 1) : ~last.calls[j].ok

C2_Witness ==
  /\ Len(last.calls) = 3
  /\ ~last.calls[1].ok /\ ~last.calls[2].ok /\ last.calls[3].ok
  /\ last.proxy = API_PROXIES[3]

\* C3 - first-success short-circuit: in every pass a call that produced a
\* usable link is the last call of the pass, and the link returned to the
\* caller is the link of that call (unless the write of the link threw).
C3_FirstSuccessShortCircuit ==
  /\ \A t \in TaskIds : \A k \in 1..Len(tasks[t].calls) : ~tasks[t].calls[k].ok
  /\ \A k \in 1..Len(last.calls) :
       last.calls[k].ok =>
         /\ k = Len(last.calls)
         /\ ~last.writeThrew =>
              /\ last.proxy = last.calls[k].proxy
              /\ last.op \in LinkOps => /\ last.status = 200
                                        /\ last.downloadUrl = last.calls[k].link

C3_Witness ==
  /\ last.op \in LinkOps /\ last.status = 200
  /\ Len(last.calls) = 1 /\ last.calls[1].ok
  /\ Len(API_PROXIES) > 1
  /\ last.downloadUrl = last.calls[1].link

\* C4 - expiry boundary: a getDownloadLink request on a record that has a
\* downloadUrl and an expiresAt is answered from the cache exactly when
\* now < expiresAt; at now = expiresAt and later it is a miss.
C4_ExpiryBoundary ==
  [][ \A t \in Slots, u \in Urls :
        ( /\ GetLinkStep(t, u)
          /\ \E r \in Recs(u) : r.downloadUrl # NoStr /\ r.expiresAt # NoTime )
        => ( last'.source = "cache" <=> \E r \in Recs(u) : now < r.expiresAt )
    ]_vars

C4_Witness ==
  \E t \in Slots :
    /\ tasks[t].pc = "pass" /\ tasks[t].boundary
    /\ tasks[t].op \in {"get-download", "download"}

\* C5 - missing-expiry leniency: a getDownloadLink request on a record that
\* has a downloadUrl and no expiresAt is answered with source "cache" and
\* starts no pass.
C5_MissingExpiryLeniency ==
  [][ \A t \in Slots, u \in Urls :
        ( /\ GetLinkStep(t, u)
          /\ \E r \in Recs(u) : r.downloadUrl # NoStr /\ r.expiresAt = NoTime )
        => /\ last'.source = "cache"
           /\ last'.calls = <<>>
           /\ tasks' = tasks ]_vars

\* C6 - exhaustion is a value: no getDownloadLink or forceRefresh request is
\* answered 500 on account of its pass, and a request whose pass called every
\* proxy without a usable link is answered 404.
C6_ExhaustionIsValue ==
  last.op \in LinkOps =>
    /\ last.status = 500 => last.writeThrew
    /\ Exhausted(last.calls) => last.status = 404

C6_Witness ==
  /\ last.op \in LinkOps /\ Exhausted(last.calls) /\ last.status = 404

\* C7 - exhaustion is recorded: right after a getDownloadLink or forceRefresh
\* request was answered on exhaustion, a record for its source URL exists
\* and has lastError set.
C7_ExhaustionRecorded ==
  (last.op \in LinkOps /\ Exhausted(last.calls) /\ last.status = 404)
    => \E r \in Recs(last.url) : r.lastError # NoStr

\* the downloadUrl, expiresAt and size of the records of u
LinkPart(u) ==
  { <<r.downloadUrl, r.expiresAt, r.sizeBytes>> : r \in Recs(u) }

\* C8 - failure preserves the link: a step that ends a pass without a link
\* (the failure write of get-download, of the refresh route, of the
\* background scrape) leaves downloadUrl, expiresAt and size of every
\* existing record as they were; a record it creates has none of them.
C8_FailurePreservesLink ==
  [][ ( /\ last'.calls # <<>>
        /\ \A k \in 1..Len(last'.calls) : ~last'.calls[k].ok )
      => \A u \in Urls :
           IF Recs(u) # {}
             THEN LinkPart(u)' = LinkPart(u)
             ELSE LinkPart(u)' \subseteq {<<NoStr, NoTime, NoSize>>}
    ]_vars

C8_Witness ==
  /\ last.op \in {"get-download", "refresh", "scrape"}
  /\ Exhausted(last.calls)
  /\ \E r \in Recs(last.url) : r.lastError # NoStr /\ r.downloadUrl # NoStr

\* C9 - success clears the error: right after a getDownloadLink or
\* forceRefresh request stored a resolved link, the record's lastError is
\* null.
C9_SuccessClearsError ==
  (last.op \in LinkOps /\ last.status = 200 /\ last.calls # <<>>)
    => \A r \in Recs(last.url) : r.lastError = NoStr

\* C10 - one record per source URL: neither table ever holds two rows with
\* the same url.
C10_OneRecordPerUrl ==
  \A u \in Urls :
    /\ Cardinality({r \in videos : r.url = u}) <= 1
    /\ Cardinality({r \in mediaItems : r.url = u}) <= 1

C10_Witness ==
  /\ last.op = "post" /\ last.status = 201
  /\ Len(last.created) = 2 /\ last.created[1] = last.created[2]
  /\ Cardinality({r \in mediaItems : r.id = last.created[1]}) = 1

\* C11 - second write wins on every field: right after a getDownloadLink or
\* forceRefresh request stored a resolved link, the record's downloadUrl,
\* expiresAt, fetchedAt and sizeBytes are those of that resolution, whatever
\* an earlier resolution had stored; sizeBytes is unknown when the resolution
\* reported no size.
C11_SecondWriteWins ==
  (last.op \in LinkOps /\ last.status = 200 /\ last.calls # <<>>)
    => \A r \in Recs(last.url) :
         /\ r.downloadUrl = last.downloadUrl
         /\ r.expiresAt = last.expiresAt
         /\ r.fetchedAt = now
         /\ r.sizeBytes = last.resultSize

\* the step in which a forceRefresh request for source URL u is received
RefreshStep(t, u) ==
  \/ RefreshDownload(t, u)
  \/ \E id \in Ids : MediaRefresh(t, id) /\ HasItem(id) /\ GetItem(id).url = u

RefreshOps == {"refresh-download", "refresh"}

\* the links stored in the record the request answered by last was made on:
\* the row of its url in the cacher, the media item of its id in the main
\* server
TargetLinks ==
  IF prog = "cacher"
    THEN {r.download_url : r \in {v \in videos : v.url = last.url}}
    ELSE {r.downloadUrl : r \in {m \in mediaItems : m.id = last.id}}

\* C12 - forceRefresh bypasses the cache: the step that receives a
\* forceRefresh request for a source URL starts a resolution pass at the first
\* proxy and answers nothing, whatever the stored record holds; a step that
\* answers a forceRefresh request with success comes after a call of the
\* first proxy, and the record the request was made on, unless deleted
\* meanwhile, then holds the link it answers with.
C12_ForceRefreshBypassesCache ==
  [][ /\ \A t \in Slots, u \in Urls :
           RefreshStep(t, u)
             => /\ tasks'[t].pc = "pass" /\ tasks'[t].idx = 1
                /\ tasks'[t].op \in RefreshOps /\ tasks'[t].url = u
                /\ last' = NoResp
      /\ (last'.op \in RefreshOps /\ last'.status = 200)
           => /\ last'.calls # <<>>
              /\ last'.calls[1].proxy = API_PROXIES[1]
              /\ \A l \in TargetLinks' : l = last'.downloadUrl
    ]_vars

\* a forceRefresh request was just received while the record is fresh: its
\* pass is about to call the first proxy
C12_Witness ==
  /\ last = NoResp
  /\ \E t \in Slots :
       /\ InFlight = {t}
       /\ tasks[t].op \in RefreshOps /\ tasks[t].pc = "pass"
       /\ tasks[t].idx = 1 /\ tasks[t].calls = <<>>
       /\ \E r \in Recs(tasks[t].url) :
            /\ r.downloadUrl # NoStr /\ r.expiresAt # NoTime
            /\ now < r.expiresAt /\ r.fetchedAt = now

\* a soft failure: a non-2xx status, a transport error, or a 2xx body with no
\* link to extract
SoftFailure(r) ==
  \/ r.kind \in {"throw", "status"}
  \/ r.kind = "json" /\ linkCandidates(r.j) = <<>> /\ r.j.misc = NoStr
  \/ r.kind = "text" /\ r.text = NoStr

\* C13 - soft failures are absorbed: tryProxiesForDownload never throws, and
\* when the answer of proxy k is a soft failure the call of proxy k is a
\* failed one and the pass is awaiting proxy k+1 - or, proxy k being the last
\* of the list, has returned without a link.
C13_SoftFailuresAbsorbed ==
  /\ pass.st # "threw"
  /\ ~pass.result.threw
  /\ SoftFailure(pass.r)
       => LET k == Len(pass.calls) IN
          /\ ~pass.calls[k].ok /\ ~pass.result.ok
          /\ pass.calls[k].proxy = API_PROXIES[k]
          /\ IF k < Len(API_PROXIES)
               THEN /\ pass.st = "awaiting" /\ pass.idx = k + 1
                    /\ pass.inflight = {k + 1}
               ELSE pass.st = "returned" /\ pass.inflight = {}

\* the pass went through the whole list on soft failures, the last one a 2xx
\* body with no link
C13_Witness ==
  /\ pass.st = "returned" /\ ~pass.result.ok
  /\ Len(pass.calls) = Len(API_PROXIES) /\ Len(pass.calls) > 1
  /\ pass.r.kind = "json" /\ SoftFailure(pass.r)

\* C14 - raw-text fallback: when a proxy answered 2xx with a body that is
\* not JSON and the text holds an absolute URL, the pass has returned that
\* URL as the download link, attributed to that proxy.
C14_RawTextFallback ==
  (pass.r.kind = "text" /\ pass.r.text # NoStr)
    => /\ pass.st = "returned"
       /\ pass.result.ok
       /\ pass.result.download_url = pass.r.text
       /\ pass.result.proxy = API_PROXIES[Len(pass.calls)]

\* C15 - expiry resolution never fails: when a proxy answered with a body
\* that carries a link, parseExpiryFromResponse returned a timestamp for it
\* (it did not throw) and the pass returned that link with that timestamp.
C15_ExpiryNeverFails ==
  (pass.r.kind = "json" /\ linkCandidates(pass.r.j) # <<>>)
    => LET download_url == linkCandidates(pass.r.j)[1]
           expires_at == parseExpiryFromResponse(pass.r.j, download_url, now)
       IN /\ expires_at # Threw
          /\ pass.st = "returned" /\ pass.result.ok
          /\ pass.result.download_url = download_url
          /\ pass.result.expires_at = expires_at

\* What each source of an expiry gives for body j and download URL u at time
\* t, in the order of priority: NoTime when the source is absent (for
\* expires and the URL: holds no hint), BadTime when the field is present and
\* is not a date or a number.
ExpirySources(j, u, t) ==
  << j.expires_at,
     IF j.expires_in = 0 THEN NoTime
     ELSE IF j.expires_in = NaNSecs THEN BadTime
     ELSE t + j.expires_in \div SecPerHour,
     LET h == matchHours(j.expires) IN IF h = NoMatch THEN NoTime ELSE t + h,
     urlExpiry(u, t),
     t + DefaultTTL >>

\* the first source that is present
FirstPresent(srcs) ==
  srcs[CHOOSE i \in 1..Len(srcs) :
         srcs[i] # NoTime /\ \A k \in 1..(i - 1) : srcs[k] = NoTime]

\* C16 - expiry heuristic priority: when a proxy answered with a body that
\* carries a link, and the first present source in the order expires_at,
\* expires_in, expires "<N>h", URL query hints, default now + 8h is usable,
\* the pass returned the link with the expiry of that source, whatever the
\* sources after it hold.
C16_ExpiryPriority ==
  (pass.r.kind = "json" /\ linkCandidates(pass.r.j) # <<>>)
    => LET first == FirstPresent(ExpirySources(pass.r.j,
                                   linkCandidates(pass.r.j)[1], now))
       IN first # BadTime
            => /\ pass.st = "returned" /\ pass.result.ok
               /\ pass.result.expires_at = first

\* every source is present and usable: the pass returned expires_at
C16_Witness ==
  /\ pass.st = "returned" /\ pass.result.ok
  /\ pass.r.j.expires_at \in ExpTimes
  /\ pass.r.j.expires_in = 2 * SecPerHour
  /\ pass.r.j.expires = <<"2", "h">>
  /\ pass.r.j.link = "https://d/f?dstime=1765000000"
  /\ pass.result.expires_at = pass.r.j.expires_at
  /\ pass.result.expires_at # now + 2

\* the digits of the quotient of the number ds by d, and the remainder
RECURSIVE DivDigits(_, _)
DivDigits(ds, d) ==
  IF ds = <<>> THEN [q |-> <<>>, r |-> 0]
  ELSE LET p == DivDigits(SubSeq(ds, 1, Len(ds) - 1), d)
           x == p.r * 10 + DigitVal(ds[Len(ds)])
       IN [q |-> Append(p.q, DigitChars[(x \div d) + 1]), r |-> x % d]

\* the decimal digits of a natural number
RECURSIVE DigitsOf(_)
DigitsOf(x) ==
  IF x < 10 THEN <<DigitChars[x + 1]>>
  ELSE Append(DigitsOf(x \div 10), DigitChars[(x % 10) + 1])

\* date x is the Unix epoch written v: v seconds when v < 10^12, else v ms
IsEpochOf(x, v) ==
  LET n == StripZeros(v)
      d == IF Len(n) <= MaxSecondsDigits THEN SecPerHour ELSE MsPerHour
  IN x >= 0 /\ StripZeros(DigitsOf(x)) = StripZeros(DivDigits(n, d).q)

\* v is a time value a Date can hold
InDateRange(v) ==
  LET n == StripZeros(v)
  IN Len(n) <= MaxSecondsDigits \/ DigitsLeq(n, MaxDateMs)

\* a parameter value that ends the loop over the keys
Decides(v) ==
  (AllDigits(v) /\ Len(v) >= MinEpochDigits) \/ matchHours(v) # NoMatch

\* the URL heuristics are reached for the body j of the last answer, and
\* the first of the keys that decides on its download URL is ExpiryKeys[i]
UrlKeyReached(i) ==
  /\ pass.r.kind = "json" /\ linkCandidates(pass.r.j) # <<>>
  /\ pass.r.j.expires_at = NoTime /\ pass.r.j.expires_in = 0
  /\ matchHours(pass.r.j.expires) = NoMatch
  /\ LET u == linkCandidates(pass.r.j)[1] IN
     /\ HasParam(u, ExpiryKeys[i]) /\ Decides(GetParam(u, ExpiryKeys[i]))
     /\ \A k \in 1..(i - 1) :
          HasParam(u, ExpiryKeys[k]) => ~Decides(GetParam(u, ExpiryKeys[k]))

EpochValue(v) == AllDigits(v) /\ Len(v) >= MinEpochDigits

\* an all-digit value of fewer than 9 digits is not the expiry returned
ShortValuesUnused ==
  (pass.r.kind = "json" /\ linkCandidates(pass.r.j) # <<>> /\ pass.result.ok)
    => LET u == linkCandidates(pass.r.j)[1] IN
       \A i \in 1..Len(ExpiryKeys) :
         ( /\ HasParam(u, ExpiryKeys[i])
           /\ AllDigits(GetParam(u, ExpiryKeys[i]))
           /\ Len(GetParam(u, ExpiryKeys[i])) < MinEpochDigits )
           => ~IsEpochOf(pass.result.expires_at, GetParam(u, ExpiryKeys[i]))

\* C17 as stated - URL-embedded epoch expiry: when the URL heuristics are
\* reached and the deciding parameter (expires, expires_at, dstime or exp) is
\* all digits and at least 9 digits long, the pass returned the link with
\* that value read as a Unix epoch, in seconds below 10^12 and in
\* milliseconds otherwise; an all-digit value of fewer than 9 digits is not
\* used as an epoch.
C17_UrlEpoch ==
  /\ \A i \in 1..Len(ExpiryKeys) :
       LET v == GetParam(linkCandidates(pass.r.j)[1], ExpiryKeys[i]) IN
       (UrlKeyReached(i) /\ EpochValue(v))
         => pass.result.ok /\ IsEpochOf(pass.result.expires_at, v)
  /\ ShortValuesUnused

\* C17 - URL-embedded epoch expiry, within the range of a Date: as above
\* when the value is a time a Date can hold (at most 8.64e15 ms); beyond
\* that range the URL is given up and the expiry is the default now + 8h.
C17_UrlEpochInRange ==
  /\ \A i \in 1..Len(ExpiryKeys) :
       LET v == GetParam(linkCandidates(pass.r.j)[1], ExpiryKeys[i]) IN
       (UrlKeyReached(i) /\ EpochValue(v))
         => /\ pass.result.ok
            /\ IF InDateRange(v)
                 THEN IsEpochOf(pass.result.expires_at, v)
                 ELSE pass.result.expires_at = now + DefaultTTL
  /\ ShortValuesUnused

\* a 13-digit value was read as milliseconds
C17_Witness ==
  /\ pass.st = "returned" /\ pass.result.ok
  /\ UrlKeyReached(1)
  /\ pass.result.download_url = "https://d/f?expires=1765000000000"
  /\ pass.result.expires_at = 1765000000 \div SecPerHour

\* the link fields of body j that have a value, as indices of the list
\* download_link, downloadUrl, download_url, file, file_url, link, url
FieldsWithValue(j) == {i \in 1..Len(LinkFields) : j[LinkFields[i]] # NoStr}

\* C18 - normalizer field priority: when a proxy answered with a JSON body,
\* a link the pass returned is the value of the first link field that has
\* one, and the string found by the scan of the other fields only when no
\* link field has a value; a body with a link field and no expiry field
\* does make the pass return.
C18_FieldPriority ==
  pass.r.kind = "json"
    => LET j == pass.r.j
           set == FieldsWithValue(j)
       IN /\ pass.result.ok
               => pass.result.download_url =
                    IF set = {} THEN j.misc
                    ELSE j[LinkFields[CHOOSE i \in set : \A k \in set : i <= k]]
          /\ (set # {} /\ j.expires_at = NoTime /\ j.expires_in = 0)
               => pass.st = "returned" /\ pass.result.ok

\* download_link wins over link and over a string the scan would pick
C18_Witness ==
  /\ pass.st = "returned" /\ pass.result.ok
  /\ pass.r.j.link = "L1" /\ pass.r.j.download_link = "L2"
  /\ pass.r.j.misc = "T1"
  /\ pass.result.download_url = "L2"

\* C19 - an unresponsive proxy cannot stall the chain: the wait of a pass
\* for a proxy always comes to an end, also when the proxy never answers,
\* so the pass moves on to the next proxy or completes.
C19_NoStall == pass.st = "awaiting" => FetchSettles

\* C20 - strictly sequential pass: at most one fetch is outstanding, and
\* while the pass awaits proxy idx it is the fetch of that proxy, issued
\* after idx - 1 calls were answered; the calls made are those of the first
\* proxies of the list in order, each once, so there are never more calls
\* than proxies; and the awaited fetch of a proxy that answers settles, so
\* a pass whose calls all return comes to its end.
C20_StrictlySequential ==
  /\ Cardinality(pass.inflight) <= 1
  /\ Len(pass.calls) <= Len(API_PROXIES)
  /\ \A a, b \in 1..Len(pass.calls) :
       /\ pass.calls[a].proxy = API_PROXIES[a]
       /\ a # b => pass.calls[a].proxy # pass.calls[b].proxy
  /\ pass.st = "awaiting"
       => /\ pass.inflight = {pass.idx}
          /\ Len(pass.calls) = pass.idx - 1
          /\ pass.idx <= Len(API_PROXIES)
          /\ pass.idx \notin pass.silent => FetchSettles
  /\ pass.st \in {"returned", "threw"} => pass.inflight = {}

\* the pass returned the link of the last proxy of the list, every proxy
\* having been called once
C20_Witness ==
  /\ pass.st = "returned" /\ pass.result.ok
  /\ Len(pass.calls) = Len(API_PROXIES) /\ Len(pass.calls) > 1
  /\ pass.result.proxy = API_PROXIES[Len(API_PROXIES)]

\* the record of source URL u is fresh: it has a link that expires later
\* than now
Fresh(u) ==
  \E r \in Recs(u) :
    r.downloadUrl # NoStr /\ r.expiresAt # NoTime /\ now < r.expiresAt

GetLinkOps == {"get-download", "download"}

\* the step in which the getDownloadLink request of task t stores the link
\* it resolved and answers
StoresLink(t) ==
  /\ tasks[t].op \in GetLinkOps /\ tasks[t].pc = "pass"
  /\ tasks'[t].pc = "idle"
  /\ last'.op = tasks[t].op /\ last'.status = 200 /\ last'.calls # <<>>

\* C21 - concurrent misses, last write wins: when a getDownloadLink request
\* that observed a miss stores its link after another request stored one
\* for the same source URL meanwhile (the record is fresh when the write
\* lands), the record then has downloadUrl, expiresAt, fetchedAt, sizeBytes
\* and lastError as this last write gives them - lastError null - and
\* nothing of the earlier requests.
C21_LastWriteWins ==
  [][ \A t \in Slots, u \in Urls :
        (StoresLink(t) /\ tasks[t].url = u /\ Fresh(u))
          => \A r \in Recs(u)' :
               /\ r.downloadUrl = last'.downloadUrl
               /\ r.expiresAt = last'.expiresAt
               /\ r.fetchedAt = now
               /\ last'.resultSize # NoSize => r.sizeBytes = last'.resultSize
               /\ r.lastError = NoStr
    ]_vars

\* C22 - no read-modify-write on a key: the size a getDownloadLink or
\* forceRefresh request of the main server stores with its link is the one
\* it would store running alone against the media item as it is when the
\* write lands - the size the resolution reported or else the item's
\* current size - and never a value read before the proxy calls.
C22_NoReadModifyWrite ==
  [][ \A t \in Slots, id \in Ids :
        ( /\ prog = "routes"
          /\ tasks[t].op \in LinkOps /\ tasks[t].pc = "pass"
          /\ tasks[t].id = id /\ tasks'[t].pc = "idle"
          /\ last'.op = tasks[t].op /\ last'.status = 200
          /\ HasItem(id) )
          => GetItem(id)'.size = SizeOr(last'.resultSize, GetItem(id).size)
    ]_vars

\* C23 - success makes the record fresh: right after a request stored the
\* link it resolved, the record of that source URL is fresh (a
\* getDownloadLink request made now is answered from the cache).
C23_SuccessMakesFresh ==
  (last.op \in LinkOps /\ last.status = 200 /\ last.calls # <<>>
     /\ Recs(last.url) # {})
    => Fresh(last.url)

\* the record of u has a link whose expiry is reached
Stale(u) ==
  \E r \in Recs(u) :
    r.downloadUrl # NoStr /\ r.expiresAt # NoTime /\ r.expiresAt <= now

\* the step just taken ended a resolution pass for u without a link
JustFailed(u) ==
  last.url = u /\ last.op \in LinkOps \cup {"scrape"} /\ Exhausted(last.calls)

\* C24 as stated - stale and failed records are retried: a getDownloadLink
\* request received while the record is stale, or right after a resolution
\* for its source URL failed, starts a resolution pass and is not answered
\* from the cache.
C24_StaleAndFailedRetried ==
  [][ \A t \in Slots, u \in Urls :
        (GetLinkStep(t, u) /\ (Stale(u) \/ JustFailed(u)))
          => tasks'[t].pc = "pass" /\ tasks'[t].idx = 1 /\ last' = NoResp
    ]_vars

\* C24 - records that are not fresh are retried: a getDownloadLink request
\* received while the record is stale, or has no link (as after a failed
\* resolution of a source URL that had none), starts a resolution pass and
\* is not answered from the cache.
C24_NotFreshRetried ==
  [][ \A t \in Slots, u \in Urls :
        ( /\ GetLinkStep(t, u)
          /\ Recs(u) # {}
          /\ Stale(u) \/ \A r \in Recs(u) : r.downloadUrl = NoStr )
          => tasks'[t].pc = "pass" /\ tasks'[t].idx = 1 /\ last' = NoResp
    ]_vars

\* a getDownloadLink request found its record stale and started a pass; the
\* record also carries the error of a failed resolution
C24_Witness ==
  /\ last = NoResp
  /\ \E t \in Slots :
       /\ tasks[t].op \in GetLinkOps /\ tasks[t].pc = "pass"
       /\ tasks[t].boundary /\ tasks[t].calls = <<>>
       /\ Stale(tasks[t].url)
       /\ \E r \in Recs(tasks[t].url) : r.lastError # NoStr

\* C25 - fresh becomes stale only by the clock: no step of a
\* getDownloadLink request, a forceRefresh request or a background scrape
\* (its receipt, its proxy calls, its write and answer) takes the record of
\* a source URL from fresh to not fresh.
C25_FreshUntilExpiry ==
  [][ \A u \in Urls :
        (Fresh(u) /\ now' = now /\ last'.op \in LinkOps \cup {"none", "scrape"})
          => Fresh(u)'
    ]_vars

\* C26 - result tagging: a successful answer to a getDownloadLink request
\* has source "cache" when no proxy was called for it, and otherwise source
\* "fresh" with proxy the name of the proxy whose call produced the link.
C26_ResultTagging ==
  (last.op \in GetLinkOps /\ last.status = 200)
    => IF last.calls = <<>>
         THEN last.source = "cache"
         ELSE /\ last.source = "fresh"
              /\ last.proxy = last.calls[Len(last.calls)].proxy
              /\ last.calls[Len(last.calls)].ok

\* C27 - invalid input is rejected before any proxy: a getDownloadLink or
\* forceRefresh request whose source URL is missing or malformed, or whose id
\* has no media item, is answered 400 or 404 with no proxy called; no pass
\* runs for it and no row is written for it.
C27_InvalidInputRejected ==
  /\ \A t \in TaskIds : tasks[t].pc = "idle"
  /\ videos = {} /\ mediaItems = {}
  /\ last.op \in LinkOps => last.status \in {400, 404} /\ last.calls = <<>>

C29_UniformFailure ==
  (last.op \in LinkOps /\ Exhausted(last.calls)) =>
    last = Reply(last.op, last.url, last.id, last.calls, 404)

C29_Witness ==
  /\ last.op \in LinkOps /\ Exhausted(last.calls)
  /\ last.status = 404 /\ last.proxy = NoStr /\ last.downloadUrl = NoStr

\* C30 - the proxy list comes from configuration: when a request of the main
\* server starts a resolution pass, every proxy the pass is going to attempt
\* is an entry of the api-options table as it stands at that step.
C30_ProxiesFromConfiguration ==
  [][ \A t \in TaskIds :
        (prog = "routes" /\ tasks[t].pc = "idle" /\ tasks'[t].pc = "pass") =>
          \A k \in 1..Len(API_PROXIES) :
            \E o \in apiOptions' : o.id = API_PROXIES[k] ]_vars

\* C31 - a non-2xx answer of the third-party service behind a proxy is a soft
\* failure: the attempt that got it takes no link from its body (and so the
\* pass does not end on it with a link).
C31_UpstreamStatusSoftFailure ==
  (pass.calls # <<>> /\ ~pass.up.ok) =>
    /\ ~pass.calls[Len(pass.calls)].ok
    /\ pass.result.download_url = NoStr

\* C32 - POST /api/media with a list of valid URLs answers 201 with exactly
\* one media item per input URL, in input order, the k-th item being a row of
\* the table whose url is the k-th input URL.
C32_OneItemPerUrlInOrder ==
  [][ \A urls \in PostLists :
        PostMediaUpTo(urls, MaxPostIds) =>
          /\ last'.status = 201
          /\ Len(last'.created) = Len(urls)
          /\ \A k \in 1..Len(urls) :
               \E r \in mediaItems' : r.id = last'.created[k] /\ r.url = urls[k]
    ]_vars

C32_Witness ==
  /\ last.op = "post" /\ last.status = 201 /\ Len(last.created) = 2
  /\ \E a \in mediaItems, b \in mediaItems :
       /\ a.id = last.created[1] /\ b.id = last.created[2]
       /\ a.url = "u2" /\ b.url = "u1" /\ a.id > b.id

\* C33 - create-then-list round trip: a POST /api/tags (POST /api/categories)
\* answered 201 for a name leaves a row with that name in the table; a row
\* stays in its table through every step but a DELETE of its id; and each
\* GET /api/tags (GET /api/categories) answers 200 with the name of every
\* row of the table.
C33_CreateThenList ==
  [][ /\ (last'.op = "post-tags" /\ last'.status = 201) =>
           \E r \in tags' : r.name = last'.name /\ r.id = last'.id
      /\ (last'.op = "post-categories" /\ last'.status = 201) =>
           \E r \in categories' : r.name = last'.name /\ r.id = last'.id
      /\ \A r \in tags :
           r \in tags' \/ (last'.op = "delete-tags" /\ last'.id = r.id)
      /\ \A r \in categories :
           r \in categories' \/ (last'.op = "delete-categories" /\ last'.id = r.id)
      /\ last'.op = "get-tags" =>
           last'.status = 200 /\ \A r \in tags' : r.name \in last'.names
      /\ last'.op = "get-categories" =>
           last'.status = 200 /\ \A r \in categories' : r.name \in last'.names
    ]_vars

C33_Witness ==
  /\ last.op = "get-tags" /\ last.status = 200
  /\ "a" \in last.names /\ "b" \notin last.names
  /\ \E r \in tags : r.name = "a" /\ r.id > 1
  /\ categories # {}

\* C34 - GET /health on the started server is answered 200 with the body OK,
\* whatever handlers were registered on the path after registerRoutes.
C34_HealthAnswersOK ==
  (last.op = "get" /\ last.url = "/health") =>
    last.status = 200 /\ last.name = "OK"

C34_Witness ==
  /\ last.op = "get" /\ last.url = "/health" /\ last.name = "OK"
  /\ Len(router) > 9 /\ router[Len(router)] = Layer("/health", "late")
  /\ router[8].does = "index.html"

\* C35 - a cache hit is read-only: the step that answers a getDownloadLink
\* request from the cache leaves both tables as they were, every field of the
\* record it answered from included, and starts no pass.
C35_CacheHitReadOnly ==
  [][ (last'.op \in GetLinkOps /\ last'.source = "cache") =>
        /\ videos' = videos /\ mediaItems' = mediaItems
        /\ tasks' = tasks ]_vars

C35_Witness ==
  /\ last.op \in GetLinkOps /\ last.source = "cache"
  /\ \E r \in Recs(last.url) :
       r.downloadUrl = last.downloadUrl /\ r.fetchedAt # NoTime /\ r.fetchedAt < now

\* C36 - store-then-hit round trip: the step that answers a getDownloadLink
\* request with a freshly resolved link L leaves L as the downloadUrl of the
\* record, and a step that answers from the cache returns the downloadUrl the
\* record holds; so as long as nothing writes the record, every hit returns L.
C36_StoreThenHit ==
  [][ (last'.op \in GetLinkOps /\ last'.status = 200) =>
        /\ \A l \in TargetLinks' : l = last'.downloadUrl
        /\ last'.source = "cache" => TargetLinks' # {} ]_vars

C36_Witness ==
  /\ last.op \in GetLinkOps /\ last.status = 200 /\ last.calls = <<>>
  /\ TargetLinks = {"L2"} /\ last.downloadUrl = "L2"

\* C37 - no resurrection after delete: the step in which a download, a
\* refresh or a background scrape completes creates no media item; an item
\* deleted while its resolution was in flight stays absent.
C37_NoResurrection ==
  [][ last'.op \in {"download", "refresh", "scrape"} =>
        \A r \in mediaItems' : \E q \in mediaItems : q.id = r.id /\ q.url = r.url
    ]_vars

C37_Witness ==
  /\ last.op \in {"download", "refresh", "scrape"} /\ last.calls # <<>>
  /\ last.calls[Len(last.calls)].ok /\ ~last.writeThrew
  /\ last.id # NoId /\ ~HasItem(last.id)

\* C38 - POST /api/media is idempotent per URL: a submitted URL that has a
\* media item is answered with that item, every row of the table stays, the
\* rows added are one per submitted URL that had none, and a background
\* scrape starts for exactly the ids of the rows added, on the row's url.
C38_PostIdempotentPerUrl ==
  [][ \A urls \in PostLists :
        PostMediaUpTo(urls, MaxPostIds) =>
          /\ \A k \in 1..Len(urls) : \A r \in mediaItems :
                r.url = urls[k] => last'.created[k] = r.id
          /\ mediaItems \subseteq mediaItems'
          /\ \A u \in {"u1", "u2"} :
                Cardinality({r \in mediaItems' \ mediaItems : r.url = u}) =
                  IF (\E k \in 1..Len(urls) : urls[k] = u)
                     /\ ~\E r \in mediaItems : r.url = u
                    THEN 1 ELSE 0
          /\ \A id \in 1..MaxPostIds :
                IF \E r \in mediaItems' \ mediaItems : r.id = id
                  THEN /\ tasks'[ScrapeSlot(id)].op = "scrape"
                       /\ tasks'[ScrapeSlot(id)].pc = "pass"
                       /\ tasks'[ScrapeSlot(id)].id = id
                       /\ \E r \in mediaItems' : r.id = id /\ r.url = tasks'[ScrapeSlot(id)].url
                  ELSE tasks'[ScrapeSlot(id)] = tasks[ScrapeSlot(id)]
    ]_vars

C38_Witness ==
  /\ last.op = "post" /\ last.created = <<2, 1>> /\ nextId = 3
  /\ Cardinality(mediaItems) = 2
  /\ tasks[ScrapeSlot(1)] = Idle /\ tasks[ScrapeSlot(2)] = Idle

C40_DeleteUnknownIs404 ==
  [][ \A id \in 1..MaxPostIds : DeleteMedia(id) =>
        IF \E r \in mediaItems : r.id = id
          THEN last'.status = 200 /\ ~\E r \in mediaItems' : r.id = id
          ELSE last'.status = 404 ]_vars
====
